---- MODULE Spec2Model ----
(***************************************************************************)
(* Model of Text_Adventure_Game.py: the world built by Game.create_world,  *)
(* the main command loop (Game.start / Game.handle_command), the command   *)
(* handlers and the combat loop of Game.cmd_fight.                         *)
(*                                                                         *)
(* A line of input is a sequence of whitespace-separated tokens, so that   *)
(* str.split(), " ".join(...), str.strip() and str.startswith("use ") are  *)
(* modelled by what they do on tokens; str.lower() is a table on tokens.   *)
(* random.randint and random.random are nondeterministic choices.          *)
(***************************************************************************)
EXTENDS Integers, Sequences, FiniteSets, TLC

VARIABLES
    items,      \* room key -> Room.items, a sequence of Item records
    enemies,    \* room key -> Room.enemies, a sequence of Enemy records
    exits,      \* room key -> Room.exits, a function direction -> room key
    current_room, \* Player.current_room
    hp,         \* Player.hp
    inventory,  \* Player.inventory, a sequence of Item records
    fights,     \* the active cmd_fight frames, innermost last
    over,       \* TRUE once the loop of Game.start has ended
    made,       \* number of Item objects constructed so far
    consumed,   \* ids of the items popped from the inventory by a use
    inputs,     \* number of lines read so far, by either input() call
    ended,      \* how the cmd_fight call that returned last ended
    out         \* the kind of the message printed last

vars == <<items, enemies, exits, current_room, hp, inventory, fights, over,
          made, consumed, inputs, ended, out>>

\* Everything a command can change, without the control position and the
\* printed message.
world == <<items, enemies, exits, current_room, hp, inventory>>

\* The longest session checked, in lines typed.
MaxInputs == 6

----------------------------------------------------------------------------
\* Strings

\* str.lower() on one token.
LowerToken(t) ==
    CASE t = "Small" -> "small"
      [] t = "Potion" -> "potion"
      [] t = "Large" -> "large"
      [] t = "Rusty" -> "rusty"
      [] t = "Sword" -> "sword"
      [] t = "Glowing" -> "glowing"
      [] t = "Gem" -> "gem"
      [] t = "Giant" -> "giant"
      [] t = "Rat" -> "rat"
      [] t = "Goblin" -> "goblin"
      [] t = "Wraith" -> "wraith"
      [] t = "TAKE" -> "take"
      [] t = "North" -> "north"
      [] t = "FLEE" -> "flee"
      [] t = "Use" -> "use"
      [] t = "QUIT" -> "quit"
      [] OTHER -> t

\* str.lower() on a line of tokens.
Lower(s) == [i \in 1..Len(s) |-> LowerToken(s[i])]

\* s with its element at position i (1-based) removed: list.pop(i-1).
Pop(s, i) == [j \in 1..(Len(s) - 1) |-> IF j < i THEN s[j] ELSE s[j + 1]]

\* The positions of s whose element's name is `name`.
Named(s, name) == {i \in 1..Len(s) : s[i].name = name}

\* The least of a set of positions, 0 when the set is empty: where a
\* `for ...: if ...: ... return` loop over a list stops.
FirstIndex(hits) ==
    IF hits = {} THEN 0 ELSE CHOOSE i \in hits : \A j \in hits : i <= j

----------------------------------------------------------------------------
\* Game objects

Rooms == {"foyer", "hall", "armory", "kitchen", "cellar", "tower"}

\* Item.__init__: the name is lower-cased; id is the object's identity.
Item(id, name, heal, attack_bonus) ==
    [id |-> id, name |-> Lower(name), heal |-> heal, attack_bonus |-> attack_bonus]

\* Enemy.__init__
Enemy(name, e_hp, attack) ==
    [name |-> Lower(name), hp |-> e_hp, attack |-> attack]

\* Faulty variant of is_alive: an enemy of health 0 counts as alive.
is_alive_at_zero(e) == e.hp >= 0

\* Enemy.is_alive
is_alive(e) == e.hp > 0

\* Faulty variant of take_damage: the enemy's hide takes the first six points
\* of every blow, so that a weak blow does no damage.
take_damage_armored(e, dmg) == [e EXCEPT !.hp = e.hp - (IF dmg > 6 THEN dmg - 6 ELSE 0)]

\* Enemy.take_damage
take_damage(e, dmg) == [e EXCEPT !.hp = e.hp - dmg]

\* Player.is_alive
player_is_alive == hp > 0

base_attack == 5

RECURSIVE BonusSum(_)
BonusSum(inv) ==
    IF inv = <<>> THEN 0 ELSE Head(inv).attack_bonus + BonusSum(Tail(inv))

\* Faulty variant of attack_value: the bonuses of the inventory are left out.
attack_value_base_only == base_attack

\* Player.attack_value
attack_value == base_attack + BonusSum(inventory)

Max(a, b) == IF a >= b THEN a ELSE b

----------------------------------------------------------------------------
\* Game.create_world and Player.__init__

start_hp == 30

\* Game.create_world: the items, the enemies and the exits of the rooms.
create_world_items ==
    [r \in Rooms |->
          CASE r = "foyer" -> <<Item(1, <<"Small", "Potion">>, 10, 0)>>
            [] r = "kitchen" -> <<Item(2, <<"Large", "Potion">>, 20, 0)>>
            [] r = "armory" -> <<Item(3, <<"Rusty", "Sword">>, 0, 3)>>
            [] r = "tower" -> <<Item(4, <<"Glowing", "Gem">>, 0, 0)>>
            [] OTHER -> <<>>]

create_world_enemies ==
    [r \in Rooms |->
          CASE r = "cellar" -> <<Enemy(<<"Giant", "Rat">>, 8, 2)>>
            [] r = "hall" -> <<Enemy(<<"Goblin">>, 14, 4)>>
            [] r = "tower" -> <<Enemy(<<"Wraith">>, 25, 7)>>
            [] OTHER -> <<>>]

create_world_exits ==
    [r \in Rooms |->
          CASE r = "foyer" -> [d \in {"north"} |-> "hall"]
            [] r = "hall" -> [d \in {"south", "east", "west", "up"} |->
                                CASE d = "south" -> "foyer"
                                  [] d = "east" -> "armory"
                                  [] d = "west" -> "kitchen"
                                  [] d = "up" -> "tower"]
            [] r = "armory" -> [d \in {"west"} |-> "hall"]
            [] r = "kitchen" -> [d \in {"east", "down"} |->
                                CASE d = "east" -> "hall"
                                  [] d = "down" -> "cellar"]
            [] r = "cellar" -> [d \in {"up"} |-> "kitchen"]
            [] r = "tower" -> [d \in {"down"} |-> "hall"]]

Init ==
    /\ items = create_world_items
    /\ enemies = create_world_enemies
    /\ exits = create_world_exits
    /\ current_room = "foyer"
    /\ hp = start_hp
    /\ inventory = <<>>
    /\ fights = <<>>
    /\ over = FALSE
    /\ made = 4
    /\ consumed = {}
    /\ inputs = 0
    /\ ended = [state |-> "none", hp0 |-> 0, rounds |-> 0]
    /\ out = "description"

----------------------------------------------------------------------------
\* Command handlers.  Each handler states the whole next state but `over`;
\* `base` is the stack of cmd_fight frames control returns to when the
\* handler is done.

Rest(parts) == SubSeq(parts, 2, Len(parts))

\* The frame of a cmd_fight call: the enemy object it holds (a position in a
\* room's enemy list), where it stands ("round": at the while test of line
\* 301, "prompt": at the input of line 328), the rounds it has begun and the
\* enemy's health when it was engaged.
Frame(room, idx) ==
    [room |-> room, idx |-> idx, pos |-> "round", round |-> 0,
     hp0 |-> enemies[room][idx].hp]

\* The record of a fight that ends in `state`, one of the combat states
\* player_wins, player_dies and player_flees.
Ended(f, state) == [state |-> state, hp0 |-> f.hp0, rounds |-> f.round]

Top == fights[Len(fights)]
Front(s) == SubSeq(s, 1, Len(s) - 1)

\* Where the control of the program is.
pc == IF over THEN "over" ELSE IF fights = <<>> THEN "main" ELSE Top.pos

\* The enemy object a frame holds.
EnemyOf(f) == enemies[f.room][f.idx]

Say(text, base) ==
    /\ out' = text
    /\ fights' = base
    /\ UNCHANGED <<world, made, consumed, ended>>

cmd_help(base) == Say("help", base)

cmd_look(base) == Say("description", base)

cmd_inventory(base) == Say("inventory", base)

\* Faulty variant of cmd_go: the move also connects the new room back to the
\* room the player came from, under the direction "back".
cmd_go_links(direction, base) ==
    IF direction \notin DOMAIN exits[current_room]
    THEN Say("cant_go", base)
    ELSE LET new_room == exits[current_room][direction]
         IN /\ current_room' = new_room
            /\ exits' = [exits EXCEPT ![new_room] =
                  [d \in DOMAIN @ \cup {"back"} |->
                      IF d = "back" THEN current_room ELSE @[d]]]
            /\ out' = "description"
            /\ fights' = base
            /\ UNCHANGED <<items, enemies, hp, inventory, made, consumed, ended>>

\* Faulty variant of cmd_go: a direction that is no exit falls back to the
\* foyer, as exits.get(direction, foyer) would.
cmd_go_fallback(direction, base) ==
    /\ current_room' = IF direction \in DOMAIN exits[current_room]
                       THEN exits[current_room][direction] ELSE "foyer"
    /\ out' = "description"
    /\ fights' = base
    /\ UNCHANGED <<items, enemies, exits, hp, inventory, made, consumed, ended>>

\* Faulty variant of cmd_go: an enemy that is alive in the current room bars
\* the way out.
cmd_go_blocked(direction, base) ==
    IF \/ direction \notin DOMAIN exits[current_room]
       \/ \E i \in 1..Len(enemies[current_room]) : is_alive(enemies[current_room][i])
    THEN Say("cant_go", base)
    ELSE /\ current_room' = exits[current_room][direction]
         /\ out' = "description"
         /\ fights' = base
         /\ UNCHANGED <<items, enemies, exits, hp, inventory, made, consumed, ended>>

cmd_go(direction, base) ==
    IF direction \notin DOMAIN exits[current_room]
    THEN Say("cant_go", base)
    ELSE /\ current_room' = exits[current_room][direction]
         /\ out' = "description"
         /\ fights' = base
         /\ UNCHANGED <<items, enemies, exits, hp, inventory, made, consumed, ended>>

\* Faulty variant of cmd_take: the item is added to the inventory and never
\* popped from the room's list.
cmd_take_keeps(item_name, base) ==
    LET name == Lower(item_name)
        i == FirstIndex(Named(items[current_room], name))
    IN IF i = 0
       THEN Say("no_such_item_here", base)
       ELSE /\ inventory' = Append(inventory, items[current_room][i])
            /\ out' = "took"
            /\ fights' = base
            /\ UNCHANGED <<items, enemies, exits, current_room, hp, made, consumed, ended>>

\* Faulty variant of cmd_take: an item matches when its name ends with the
\* name typed, so that `take potion` takes the small potion.
cmd_take_partial(item_name, base) ==
    LET name == Lower(item_name)
        here == items[current_room]
        i == FirstIndex({k \in 1..Len(here) :
                 /\ Len(here[k].name) >= Len(name)
                 /\ SubSeq(here[k].name, Len(here[k].name) - Len(name) + 1,
                           Len(here[k].name)) = name})
    IN IF i = 0
       THEN Say("no_such_item_here", base)
       ELSE /\ inventory' = Append(inventory, items[current_room][i])
            /\ items' = [items EXCEPT ![current_room] = Pop(@, i)]
            /\ out' = "took"
            /\ fights' = base
            /\ UNCHANGED <<enemies, exits, current_room, hp, made, consumed, ended>>

cmd_take(item_name, base) ==
    LET name == Lower(item_name)
        i == FirstIndex(Named(items[current_room], name))
    IN IF i = 0
       THEN Say("no_such_item_here", base)
       ELSE /\ inventory' = Append(inventory, items[current_room][i])
            /\ items' = [items EXCEPT ![current_room] = Pop(@, i)]
            /\ out' = "took"
            /\ fights' = base
            /\ UNCHANGED <<enemies, exits, current_room, hp, made, consumed, ended>>

\* Faulty variant of cmd_use: healing stops at the health the player starts with.
cmd_use_capped(item_name, base) ==
    LET name == Lower(item_name)
        i == FirstIndex(Named(inventory, name))
    IN IF i = 0
       THEN Say("dont_have_item", base)
       ELSE IF inventory[i].heal > 0
            THEN /\ hp' = IF hp + inventory[i].heal > start_hp
                          THEN start_hp ELSE hp + inventory[i].heal
                 /\ inventory' = Pop(inventory, i)
                 /\ consumed' = consumed \cup {inventory[i].id}
                 /\ out' = "restored"
                 /\ fights' = base
                 /\ UNCHANGED <<items, enemies, exits, current_room, made, ended>>
            ELSE Say("nothing_happened", base)

\* Faulty variant of cmd_use: the item is popped whether it heals or not.
cmd_use_consumes(item_name, base) ==
    LET name == Lower(item_name)
        i == FirstIndex(Named(inventory, name))
    IN IF i = 0
       THEN Say("dont_have_item", base)
       ELSE /\ hp' = hp + inventory[i].heal
            /\ inventory' = Pop(inventory, i)
            /\ consumed' = consumed \cup {inventory[i].id}
            /\ out' = IF inventory[i].heal > 0 THEN "restored" ELSE "nothing_happened"
            /\ fights' = base
            /\ UNCHANGED <<items, enemies, exits, current_room, made, ended>>

cmd_use(item_name, base) ==
    LET name == Lower(item_name)
        i == FirstIndex(Named(inventory, name))
    IN IF i = 0
       THEN Say("dont_have_item", base)
       ELSE IF inventory[i].heal > 0
            THEN /\ hp' = hp + inventory[i].heal
                 /\ inventory' = Pop(inventory, i)
                 /\ consumed' = consumed \cup {inventory[i].id}
                 /\ out' = "restored"
                 /\ fights' = base
                 /\ UNCHANGED <<items, enemies, exits, current_room, made, ended>>
            ELSE Say("nothing_happened", base)

\* Faulty variant of find_enemy_in_room: the enemy need not be alive.
find_enemy_in_room_any(enemy_name) ==
    FirstIndex(Named(enemies[current_room], Lower(enemy_name)))

\* The position in the current room's enemy list of the first enemy of that
\* name that is alive; 0 for None.
find_enemy_in_room(enemy_name) ==
    LET name == Lower(enemy_name)
        here == enemies[current_room]
    IN FirstIndex({k \in Named(here, name) : is_alive(here[k])})

\* Game.cmd_fight up to the while loop: the loop itself is fight_round and
\* combat_prompt below.
cmd_fight(enemy_name, base) ==
    LET i == find_enemy_in_room(enemy_name)
    IN IF i = 0
       THEN Say("no_such_enemy_here", base)
       ELSE /\ fights' = Append(base, Frame(current_room, i))
            /\ out' = "engage"
            /\ UNCHANGED <<world, made, consumed, ended>>

\* Player.use_healing: uses the first healing item of the inventory.  No
\* command of the game calls it.
use_healing(base) ==
    LET i == FirstIndex({k \in 1..Len(inventory) : inventory[k].heal > 0})
    IN IF i = 0
       THEN /\ fights' = base
            /\ UNCHANGED <<world, made, consumed, ended, out>>
       ELSE /\ hp' = hp + inventory[i].heal
            /\ inventory' = Pop(inventory, i)
            /\ consumed' = consumed \cup {inventory[i].id}
            /\ fights' = base
            /\ out' = out
            /\ UNCHANGED <<items, enemies, exits, current_room, made, ended>>

\* Faulty variant of handle_command: `use` with no argument calls
\* Player.use_healing.
handle_command_autouse(parts, base) ==
    LET cmd == parts[1]
    IN IF cmd = "help" THEN cmd_help(base)
       ELSE IF cmd = "look" THEN cmd_look(base)
       ELSE IF cmd = "inventory" THEN cmd_inventory(base)
       ELSE IF cmd = "go"
            THEN IF Len(parts) < 2 THEN Say("usage", base)
                 ELSE cmd_go(parts[2], base)
       ELSE IF cmd = "take"
            THEN IF Len(parts) < 2 THEN Say("usage", base)
                 ELSE cmd_take(Rest(parts), base)
       ELSE IF cmd = "fight"
            THEN IF Len(parts) < 2 THEN Say("usage", base)
                 ELSE cmd_fight(Rest(parts), base)
       ELSE IF cmd = "use"
            THEN IF Len(parts) < 2 THEN use_healing(base)
                 ELSE cmd_use(Rest(parts), base)
       ELSE Say("unknown_command", base)

handle_command(parts, base) ==
    LET cmd == parts[1]
    IN IF cmd = "help" THEN cmd_help(base)
       ELSE IF cmd = "look" THEN cmd_look(base)
       ELSE IF cmd = "inventory" THEN cmd_inventory(base)
       ELSE IF cmd = "go"
            THEN IF Len(parts) < 2 THEN Say("usage", base)
                 ELSE cmd_go(parts[2], base)
       ELSE IF cmd = "take"
            THEN IF Len(parts) < 2 THEN Say("usage", base)
                 ELSE cmd_take(Rest(parts), base)
       ELSE IF cmd = "fight"
            THEN IF Len(parts) < 2 THEN Say("usage", base)
                 ELSE cmd_fight(Rest(parts), base)
       ELSE IF cmd = "use"
            THEN IF Len(parts) < 2 THEN Say("usage", base)
                 ELSE cmd_use(Rest(parts), base)
       ELSE Say("unknown_command", base)

----------------------------------------------------------------------------
\* The combat loop of Game.cmd_fight

PlayerRolls == 0..3
EnemyRolls == 0..2

\* Faulty variant of dmg_to_enemy: a roll of 0 is a miss.
dmg_to_enemy_miss(roll) == IF roll = 0 THEN 0 ELSE Max(1, attack_value + roll)

dmg_to_enemy(roll) == Max(1, attack_value + roll)

dmg_to_player(e, roll) == Max(1, e.attack + roll)

\* Faulty variant of Loot: the drop is a copy of the foyer's potion.
Loot_as_potion == Item(made + 1, <<"Small", "Potion">>, 10, 0)

\* The item an enemy drops.
Loot == Item(made + 1, <<"Small", "Potion">>, 8, 0)

\* One iteration of the while loop, from its test to the input of the prompt
\* or to a return.  roll and e_roll are the two random.randint draws and
\* drop is random.random() < 0.4.
fight_round(roll, e_roll, drop) ==
    /\ ~over
    /\ fights # <<>>
    /\ Top.pos = "round"
    /\ UNCHANGED <<over, inputs>>
    /\ LET f == [Top EXCEPT !.round = @ + 1]
           e == EnemyOf(f)
           hit == take_damage(e, dmg_to_enemy(roll))
           hurt == hp - dmg_to_player(e, e_roll)
       IN IF ~(is_alive(e) /\ player_is_alive)
          THEN /\ fights' = Front(fights)
               /\ ended' = Ended(Top, "loop_exit")
               /\ UNCHANGED <<world, made, consumed, out>>
          ELSE /\ enemies' = [enemies EXCEPT ![f.room][f.idx] = hit]
               /\ IF ~is_alive(hit)
                  THEN /\ IF drop
                          THEN /\ items' = [items EXCEPT ![current_room] = Append(@, Loot)]
                               /\ made' = made + 1
                               /\ out' = "dropped"
                          ELSE /\ out' = "defeated"
                               /\ UNCHANGED <<items, made>>
                       /\ fights' = Front(fights)
                       /\ ended' = Ended(f, "player_wins")
                       /\ UNCHANGED <<exits, current_room, hp, inventory, consumed>>
                  ELSE /\ hp' = hurt
                       /\ IF hurt <= 0
                          THEN /\ out' = "slain"
                               /\ fights' = Front(fights)
                               /\ ended' = Ended(f, "player_dies")
                          ELSE /\ out' = "enemy_hits"
                               /\ fights' = [fights EXCEPT ![Len(fights)] =
                                                [f EXCEPT !.pos = "prompt"]]
                               /\ ended' = ended
                       /\ UNCHANGED <<items, exits, current_room, inventory, made, consumed>>

\* Faulty variant of flee: the room is looked up under a key the game does
\* not have, so that rooms.get falls back to the current room.
flee_in_place ==
    /\ current_room' = IF "Foyer" \in Rooms THEN "Foyer" ELSE current_room
    /\ out' = "description"
    /\ fights' = Front(fights)
    /\ ended' = Ended(Top, "player_flees")
    /\ UNCHANGED <<items, enemies, exits, hp, inventory, made, consumed>>

\* The flee branch of the prompt: to the foyer, if the game has that room.
flee ==
    /\ current_room' = IF "foyer" \in Rooms THEN "foyer" ELSE current_room
    /\ out' = "description"
    /\ fights' = Front(fights)
    /\ ended' = Ended(Top, "player_flees")
    /\ UNCHANGED <<items, enemies, exits, hp, inventory, made, consumed>>

\* Faulty variant of combat_prompt: `quit` and `exit` typed at the prompt of
\* a fight leave the fight and end the session.
combat_prompt_quits(line) ==
    /\ ~over
    /\ fights # <<>>
    /\ Top.pos = "prompt"
    /\ inputs < MaxInputs
    /\ inputs' = inputs + 1
    /\ LET action == Lower(line)
           again == [fights EXCEPT ![Len(fights)] = [@ EXCEPT !.pos = "round"]]
       IN IF action \in {<<"quit">>, <<"exit">>}
          THEN /\ over' = TRUE
               /\ fights' = <<>>
               /\ out' = "goodbye"
               /\ UNCHANGED <<world, made, consumed, ended>>
          ELSE /\ over' = over
               /\ IF action = <<"flee">>
                  THEN flee
                  ELSE IF Len(action) >= 2 /\ action[1] = "use"
                  THEN handle_command(action, again)
                  ELSE IF action = <<"c">> \/ action = <<>>
                  THEN /\ fights' = again
                       /\ UNCHANGED <<world, made, consumed, ended, out>>
                  ELSE Say("unknown_option", again)

\* Faulty variant of combat_prompt: a line that is no option of the prompt is
\* handed to the dispatcher as a command of the game.
combat_prompt_dispatch(line) ==
    /\ ~over
    /\ fights # <<>>
    /\ Top.pos = "prompt"
    /\ inputs < MaxInputs
    /\ inputs' = inputs + 1
    /\ over' = over
    /\ LET action == Lower(line)
           again == [fights EXCEPT ![Len(fights)] = [@ EXCEPT !.pos = "round"]]
       IN IF action = <<"flee">>
          THEN flee
          ELSE IF action = <<"c">> \/ action = <<>>
          THEN /\ fights' = again
               /\ UNCHANGED <<world, made, consumed, ended, out>>
          ELSE handle_command(action, again)

\* The prompt that ends a round: `line` is the line typed.
combat_prompt(line) ==
    /\ ~over
    /\ fights # <<>>
    /\ Top.pos = "prompt"
    /\ inputs < MaxInputs
    /\ inputs' = inputs + 1
    /\ over' = over
    /\ LET action == Lower(line)
           again == [fights EXCEPT ![Len(fights)] = [@ EXCEPT !.pos = "round"]]
       IN IF action = <<"flee">>
          THEN flee
          ELSE IF Len(action) >= 2 /\ action[1] = "use"
          THEN handle_command(action, again)
          ELSE IF action = <<"c">> \/ action = <<>>
          THEN /\ fights' = again
               /\ UNCHANGED <<world, made, consumed, ended, out>>
          ELSE Say("unknown_option", again)

----------------------------------------------------------------------------
\* The loop of Game.start

\* Faulty variant of game_over: the dead player is put back on their feet
\* and the loop goes on.
game_over_respawn ==
    /\ ~over
    /\ fights = <<>>
    /\ ~player_is_alive
    /\ hp' = start_hp
    /\ out' = "game_over"
    /\ UNCHANGED <<items, enemies, exits, current_room, inventory, fights, over,
                   made, consumed, inputs, ended>>

\* The test that opens an iteration, when the player is dead.
game_over ==
    /\ ~over
    /\ fights = <<>>
    /\ ~player_is_alive
    /\ over' = TRUE
    /\ out' = "game_over"
    /\ UNCHANGED <<world, fights, made, consumed, inputs, ended>>

\* One iteration that reads `line`.
start(line) ==
    /\ ~over
    /\ fights = <<>>
    /\ player_is_alive
    /\ inputs < MaxInputs
    /\ inputs' = inputs + 1
    /\ IF line = <<>>
       THEN UNCHANGED <<world, fights, over, made, consumed, ended, out>>
       ELSE IF Lower(line) \in {<<"quit">>, <<"exit">>}
       THEN /\ over' = TRUE
            /\ out' = "goodbye"
            /\ UNCHANGED <<world, fights, made, consumed, ended>>
       ELSE /\ over' = over
            /\ handle_command(Lower(line), fights)

----------------------------------------------------------------------------
\* The lines typed

Directions == {"north", "south", "east", "west", "up", "down"}

ItemNames == {<<"small", "potion">>, <<"large", "potion">>, <<"rusty", "sword">>,
              <<"glowing", "gem">>}

EnemyNames == {<<"giant", "rat">>, <<"goblin">>, <<"wraith">>}

\* Lines typed at the prompt of the main loop.
Lines ==
    {<<>>, <<"quit">>, <<"exit">>, <<"QUIT">>, <<"help">>, <<"look">>, <<"inventory">>,
     <<"go">>, <<"take">>, <<"fight">>, <<"use">>, <<"dance">>, <<"flee">>, <<"c">>,
     <<"go", "North">>, <<"go", "sideways">>, <<"go", "north", "now">>,
     <<"TAKE", "Small", "Potion">>, <<"take", "potion">>, <<"use", "potion">>,
     <<"fight", "dragon">>}
    \cup {<<"go", d>> : d \in Directions}
    \cup {<<"take">> \o n : n \in ItemNames}
    \cup {<<"use">> \o n : n \in ItemNames}
    \cup {<<"fight">> \o n : n \in EnemyNames}

\* Lines typed at the prompt of a fight.
Actions ==
    {<<>>, <<"c">>, <<"flee">>, <<"FLEE">>, <<"flee", "now">>, <<"quit">>, <<"use">>,
     <<"dance">>, <<"go", "south">>, <<"take", "small", "potion">>,
     <<"fight", "goblin">>, <<"Use", "Small", "Potion">>, <<"use", "potion">>}
    \cup {<<"use">> \o n : n \in ItemNames}

Next ==
    \/ game_over
    \/ \E line \in Lines : start(line)
    \/ \E roll \in PlayerRolls, e_roll \in EnemyRolls, drop \in BOOLEAN :
          fight_round(roll, e_roll, drop)
    \/ \E line \in Actions : combat_prompt(line)

Spec == Init /\ [][Next]_vars

\* One fight from its first round to its end.  The player has picked up some
\* of the potions and the sword, in the order of their rooms from the foyer,
\* has walked to a room with an enemy and has typed `fight` and the enemy's
\* name; no fight was fought before.  The lines are counted from there.
Carriable == {1, 2, 3}

FightInit ==
    \E room \in {r \in Rooms : create_world_enemies[r] # <<>>}, carried \in SUBSET Carriable :
       /\ items = [r \in Rooms |->
             SelectSeq(create_world_items[r], LAMBDA it : it.id \notin carried)]
       /\ inventory = SelectSeq(create_world_items["foyer"] \o create_world_items["kitchen"]
                                  \o create_world_items["armory"],
                                LAMBDA it : it.id \in carried)
       /\ enemies = create_world_enemies
       /\ exits = create_world_exits
       /\ current_room = room
       /\ hp = start_hp
       /\ fights = <<Frame(room, 1)>>
       /\ over = FALSE
       /\ made = 4
       /\ consumed = {}
       /\ inputs = 0
       /\ ended = [state |-> "none", hp0 |-> 0, rounds |-> 0]
       /\ out = "engage"

\* The while loop of cmd_fight: a round, then the line read at its prompt.
Round == \E roll \in PlayerRolls, e_roll \in EnemyRolls, drop \in BOOLEAN :
            fight_round(roll, e_roll, drop)

Prompt == \E line \in Actions : combat_prompt(line)

FightNext == Round \/ Prompt

\* The loop runs on as long as it can, and every prompt is answered.
FairFight == FightInit /\ [][FightNext]_vars /\ WF_vars(Round) /\ WF_vars(Prompt)

----------------------------------------------------------------------------
\* Properties

\* The places that hold the item object `id`: positions of room lists and
\* of the inventory.
Holders(id) ==
    UNION {{<<r, i>> : i \in {j \in 1..Len(items[r]) : items[r][j].id = id}} : r \in Rooms}
    \cup {<<"inventory", i>> : i \in {j \in 1..Len(inventory) : inventory[j].id = id}}

\* The item objects constructed so far.
Made == 1..made

\* C1 as stated: every item constructed and placed is held in exactly one
\* place, a room's list or the inventory, never in two and never in none.
C1_ExactlyOnePlace == \A id \in Made : Cardinality(Holders(id)) = 1

\* C1 amended: an item is never held in two places; it is held in exactly
\* one place until a `use` that heals consumes it, and in none afterwards.
C1_OnePlaceUntilConsumed ==
    /\ consumed \subseteq Made
    /\ \A id \in Made :
          Cardinality(Holders(id)) = IF id \in consumed THEN 0 ELSE 1
    /\ \A r \in Rooms : \A i \in 1..Len(items[r]) : items[r][i].id \in Made
    /\ \A i \in 1..Len(inventory) : inventory[i].id \in Made

\* A state in which one item was consumed, a dropped item is carried and
\* other items lie in rooms.
C1_Witness ==
    /\ consumed # {}
    /\ \E i \in 1..Len(inventory) : inventory[i].id > 4
    /\ \E r \in Rooms : items[r] # <<>>

NoTwoOfAName(s) == \A i, j \in 1..Len(s) : s[i].name = s[j].name => i = j

\* C2: no room's item list and not the inventory ever holds two items of the
\* same lower-cased name.
C2_UniqueNames ==
    /\ \A r \in Rooms : NoTwoOfAName(items[r])
    /\ NoTwoOfAName(inventory)

HasName(s, n) == \E i \in 1..Len(s) : s[i].name = n

\* C3: `take <name>` of an item of the current room removes that one item
\* from the room's list and appends it to the inventory, after which the
\* room holds no item of that name, so that the same take repeated fails;
\* `take` of a name the room does not hold reports failure and changes nothing.
C3_Take ==
    [][\A n \in ItemNames \cup {<<"potion">>} :
          start(<<"take">> \o n) =>
             IF HasName(items[current_room], n)
             THEN /\ \E i \in 1..Len(items[current_room]) :
                        /\ items[current_room][i].name = n
                        /\ inventory' = inventory \o <<items[current_room][i]>>
                        /\ Len(items'[current_room]) = Len(items[current_room]) - 1
                        /\ \A j \in 1..Len(items'[current_room]) :
                              items'[current_room][j] =
                                 items[current_room][IF j < i THEN j ELSE j + 1]
                  /\ \A r \in Rooms \ {current_room} : items'[r] = items[r]
                  /\ ~HasName(items'[current_room], n)
                  /\ UNCHANGED <<enemies, exits, current_room, hp, fights, over>>
                  /\ out' = "took"
             ELSE /\ UNCHANGED <<world, fights, over, made, consumed>>
                  /\ out' = "no_such_item_here"]_vars

\* A state right after a take that added a second item to the inventory.
C3_Witness ==
    /\ out = "took"
    /\ Len(inventory) = 2
    /\ items[current_room] = <<>>

\* The names typed after `use`.
UseNames == ItemNames \cup {<<"potion">>}

\* A step that runs `use <n>`, from the main loop or from the prompt of a fight.
UseStep(n) == start(<<"use">> \o n) \/ combat_prompt(<<"use">> \o n)

\* i is the position of the first item of the inventory named n.
FirstNamed(i, n) ==
    /\ i \in 1..Len(inventory)
    /\ inventory[i].name = n
    /\ \A j \in 1..(i - 1) : inventory[j].name # n

\* C4: `use <name>` on an inventory item of heal value H > 0 adds exactly H
\* to the player's health, with no cap, and removes that one item, the first
\* of that name, from the inventory; the other items of the inventory, the
\* rooms and the enemies stay as they are.
C4_UseHeals ==
    [][\A n \in UseNames : \A i \in 1..Len(inventory) :
          (UseStep(n) /\ FirstNamed(i, n) /\ inventory[i].heal > 0) =>
             /\ hp' = hp + inventory[i].heal
             /\ Len(inventory') = Len(inventory) - 1
             /\ \A j \in 1..Len(inventory') :
                   inventory'[j] = inventory[IF j < i THEN j ELSE j + 1]
             /\ UNCHANGED <<items, enemies, exits, current_room>>]_vars

\* A state after a potion was used while a second potion of the same name
\* was carried, with the player's health above the 30 it started at.
C4_Witness ==
    /\ out = "restored"
    /\ hp > 30
    /\ HasName(inventory, <<"small", "potion">>)

\* C5: `use <name>` on an inventory item whose heal value is zero leaves the
\* inventory and the player's health as they are, and so does `use` of a name
\* the inventory does not hold; nothing else of the world changes either.
C5_UseKeeps ==
    [][\A n \in UseNames :
          (UseStep(n) /\ \A i \in 1..Len(inventory) :
                            FirstNamed(i, n) => inventory[i].heal = 0) =>
             /\ UNCHANGED <<world, made, consumed>>
             /\ out' = IF HasName(inventory, n) THEN "nothing_happened"
                                                ELSE "dont_have_item"]_vars

\* A state right after a carried item that does not heal was used.
C5_Witness ==
    /\ out = "nothing_happened"
    /\ \E i \in 1..Len(inventory) : inventory[i].heal = 0

\* C6: `go <direction>` with a direction that is no key of the current room's
\* exits leaves the current room and the rest of the world as they are and
\* reports that the player cannot go that way.
C6_GoNowhere ==
    [][\A d \in Directions \cup {"sideways"} :
          (start(<<"go", d>>) /\ d \notin DOMAIN exits[current_room]) =>
             /\ UNCHANGED <<world, fights, over, made, consumed>>
             /\ out' = "cant_go"]_vars

\* A state right after a refused go, in a room the player walked to.
C6_Witness ==
    /\ out = "cant_go"
    /\ current_room # "foyer"

\* The lines of an unrecognized verb and of go, take, fight and use with no
\* argument, and the empty line.
BadLines ==
    {<<>>, <<"dance">>, <<"flee">>, <<"c">>, <<"go">>, <<"take">>, <<"fight">>, <<"use">>}

\* C7: a line whose verb is unrecognized, or is go, take, fight or use with
\* no argument, and the empty line, change nothing of the world and leave the
\* main loop at its prompt.
C7_BadLine ==
    [][\A line \in BadLines :
          start(line) =>
             /\ UNCHANGED <<world, made, consumed>>
             /\ pc' = "main"
             /\ out' = IF line = <<>> THEN out
                       ELSE IF line[1] \in {"go", "take", "fight", "use"}
                       THEN "usage" ELSE "unknown_command"]_vars

\* A state right after a usage message, later in a session.
C7_Witness ==
    /\ out = "usage"
    /\ pc = "main"
    /\ inventory # <<>>
    /\ current_room # "foyer"

RECURSIVE BonusOfFirst(_)
\* The attack bonuses of the first n items of the inventory, added up.
BonusOfFirst(n) ==
    IF n = 0 THEN 0 ELSE inventory[n].attack_bonus + BonusOfFirst(n - 1)

AtLeastOne(x) == IF x < 1 THEN 1 ELSE x

\* C8: in every round the enemy loses max(1, 5 + the attack bonuses of all
\* inventory items + r) for some r in 0..3, and the player, if the enemy is
\* still alive, loses max(1, enemy attack + r') for some r' in 0..2; each
\* loss is at least 1.
C8_Damage ==
    [][(pc = "round" /\ fights' # fights) =>
          LET f == Top
              dealt == enemies[f.room][f.idx].hp - enemies'[f.room][f.idx].hp
              taken == hp - hp'
          IN /\ \E r \in 0..3 :
                   dealt = AtLeastOne(5 + BonusOfFirst(Len(inventory)) + r)
             /\ dealt >= 1
             /\ IF enemies'[f.room][f.idx].hp > 0
                THEN /\ \E r \in 0..2 :
                           taken = AtLeastOne(enemies[f.room][f.idx].attack + r)
                     /\ taken >= 1
                ELSE taken = 0]_vars

\* A state at the prompt of a fight, after a round fought with the rusty
\* sword in the inventory.
C8_Witness ==
    /\ pc = "prompt"
    /\ \E i \in 1..Len(inventory) : inventory[i].attack_bonus > 0

\* C9: `flee` at the prompt of a fight puts the player in the foyer, ends
\* the fight and leaves the player's health and every enemy's health as they
\* were.
C9_Flee ==
    [][\A line \in {<<"flee">>, <<"FLEE">>} :
          combat_prompt(line) =>
             /\ current_room' = "foyer"
             /\ pc' = "main"
             /\ ended'.state = "player_flees"
             /\ hp' = hp
             /\ enemies' = enemies
             /\ UNCHANGED <<items, exits, inventory>>]_vars

\* A state right after the player fled from a fight in the cellar.
C9_Witness ==
    /\ ended.state = "player_flees"
    /\ out = "description"
    /\ current_room = "foyer"
    /\ enemies["cellar"][1].hp \in 1..7

\* C10: a fight started against an enemy of health 1 ends in its first round
\* with the enemy dead, for every roll, and without a change of the player's
\* health.
C10_OneHealthEnemy ==
    [][(pc = "round" /\ Top.round = 0 /\ EnemyOf(Top).hp = 1) =>
          /\ pc' = "main"
          /\ ended' = [state |-> "player_wins", hp0 |-> 1, rounds |-> 1]
          /\ enemies'[Top.room][Top.idx].hp <= 0
          /\ hp' = hp]_vars

\* A state after a fight against an enemy of health 1 was won.
C10_Witness ==
    /\ ended = [state |-> "player_wins", hp0 |-> 1, rounds |-> 1]
    /\ pc = "main"

\* The ids of the items held anywhere.
HeldIds ==
    UNION {{items[r][i].id : i \in 1..Len(items[r])} : r \in Rooms}
    \cup {inventory[i].id : i \in 1..Len(inventory)}

\* A round in which the enemy of the fight goes from alive to dead.
Defeat ==
    /\ pc = "round"
    /\ EnemyOf(Top).hp > 0
    /\ enemies'[Top.room][Top.idx].hp <= 0

\* C11: when an enemy is defeated, the item list of the player's current
\* room is unchanged or gains exactly one item at its end, a new item of heal
\* 8 and attack bonus 0; no other room's list and not the inventory changes.
C11_LootDrop ==
    [][Defeat =>
          LET here == items[current_room]
              after == items'[current_room]
          IN /\ \/ after = here
                \/ /\ Len(after) = Len(here) + 1
                   /\ SubSeq(after, 1, Len(here)) = here
                   /\ after[Len(after)].heal = 8
                   /\ after[Len(after)].attack_bonus = 0
                   /\ after[Len(after)].id \notin HeldIds \cup consumed
             /\ \A r \in Rooms \ {current_room} : items'[r] = items[r]
             /\ inventory' = inventory
             /\ current_room' = current_room]_vars

\* A state right after a defeated enemy dropped an item in the player's room.
C11_Witness ==
    /\ out = "dropped"
    /\ ended.state = "player_wins"
    /\ \E i \in 1..Len(items[current_room]) : items[current_room][i].id > 4

\* The names typed after `fight`.
FightNames == EnemyNames \cup {<<"dragon">>}

\* The current room has an enemy of that name whose health is above 0.
AliveHere(n) ==
    \E i \in 1..Len(enemies[current_room]) :
       enemies[current_room][i].name = n /\ enemies[current_room][i].hp > 0

\* C12: `fight <name>` in a room that has no enemy of that name with health
\* above 0 (no such name, the enemy is in another room, or it is dead) starts
\* no fight and changes nothing.
C12_NoTarget ==
    [][\A n \in FightNames :
          (start(<<"fight">> \o n) /\ ~AliveHere(n)) =>
             /\ UNCHANGED <<world, fights, over, made, consumed, ended>>
             /\ pc' = "main"
             /\ out' = "no_such_enemy_here"]_vars

\* A state right after a fight was refused in a room whose enemy is dead.
C12_Witness ==
    /\ out = "no_such_enemy_here"
    /\ pc = "main"
    /\ enemies[current_room] # <<>>
    /\ \A i \in 1..Len(enemies[current_room]) : enemies[current_room][i].hp <= 0

\* C13: no enemy's health ever increases, a fight that begins takes the
\* enemy at the health earlier fights left it with, a health of 0 or less
\* never changes again, and every room's enemy list keeps the same enemies at
\* the same positions.
C13_EnemyHealth ==
    [][/\ \A r \in Rooms :
             /\ Len(enemies'[r]) = Len(enemies[r])
             /\ \A i \in 1..Len(enemies[r]) :
                   /\ enemies'[r][i].name = enemies[r][i].name
                   /\ enemies'[r][i].hp <= enemies[r][i].hp
                   /\ enemies[r][i].hp <= 0 => enemies'[r][i].hp = enemies[r][i].hp
       /\ Len(fights') > Len(fights) =>
             /\ enemies' = enemies
             /\ fights'[Len(fights')].hp0 = enemies[current_room][fights'[Len(fights')].idx].hp
             /\ fights'[Len(fights')].room = current_room]_vars

\* A state in a second fight against the goblin, which an earlier fight
\* left damaged and which this fight has damaged further.
C13_Witness ==
    /\ fights # <<>>
    /\ Top.room = "hall"
    /\ Top.hp0 < 14
    /\ EnemyOf(Top).hp < Top.hp0
    /\ ended.state = "player_flees"

SmallPotion == [id |-> 1, name |-> <<"small", "potion">>, heal |-> 10, attack_bonus |-> 0]

\* The state a session starts in, as far as C15 describes it.
C15_AtStart ==
    /\ current_room = "foyer"
    /\ hp = 30
    /\ inventory = <<>>
    /\ items["foyer"] = <<SmallPotion>>

\* The state after `take small potion` typed first.
C15_Taken ==
    /\ inputs = 1
    /\ current_room = "foyer"
    /\ hp = 30
    /\ inventory = <<SmallPotion>>
    /\ items["foyer"] = <<>>

\* C15: a session starts in the foyer with health 30, an empty inventory and
\* the small potion of heal 10 in the foyer; `take small potion` typed first
\* and `use small potion` typed second leave the player with health 40, an
\* empty inventory and an empty foyer.
C15_TakeThenUse ==
    [][/\ inputs = 0 => C15_AtStart
       /\ (inputs = 0 /\ start(<<"take", "small", "potion">>)) => C15_Taken'
       /\ (C15_Taken /\ start(<<"use", "small", "potion">>)) =>
             /\ hp' = 40
             /\ inventory' = <<>>
             /\ items'["foyer"] = <<>>
             /\ current_room' = "foyer"]_vars

\* The state after the two lines.
C15_Witness ==
    /\ inputs = 2
    /\ out = "restored"
    /\ hp = 40
    /\ inventory = <<>>
    /\ items["foyer"] = <<>>
    /\ current_room = "foyer"

\* The exits of all rooms, as triples of room, direction and target.
ExitTriples ==
    UNION {{<<r, d, exits[r][d]>> : d \in DOMAIN exits[r]} : r \in Rooms}

\* C16: in every reachable state the exits of the rooms are the ten
\* connections made at world construction, no more and no fewer.
C16_StaticExits ==
    ExitTriples =
       {<<"foyer", "north", "hall">>, <<"hall", "south", "foyer">>,
        <<"hall", "east", "armory">>, <<"armory", "west", "hall">>,
        <<"hall", "west", "kitchen">>, <<"kitchen", "east", "hall">>,
        <<"kitchen", "down", "cellar">>, <<"cellar", "up", "kitchen">>,
        <<"hall", "up", "tower">>, <<"tower", "down", "hall">>}

\* A state after the player took an item, walked, fought, fled, came back
\* and won a fight that dropped an item.
C16_Witness ==
    /\ made > 4
    /\ inventory # <<>>
    /\ current_room # "foyer"
    /\ ended.state = "player_wins"
    /\ ended.hp0 \notin {8, 14, 25}

\* The effect of `use <n>` on the player's health and inventory.
UseEffect(n) ==
    IF \E i \in 1..Len(inventory) : FirstNamed(i, n) /\ inventory[i].heal > 0
    THEN \E i \in 1..Len(inventory) :
            /\ FirstNamed(i, n)
            /\ hp' = hp + inventory[i].heal
            /\ Len(inventory') = Len(inventory) - 1
            /\ \A j \in 1..Len(inventory') :
                  inventory'[j] = inventory[IF j < i THEN j ELSE j + 1]
    ELSE UNCHANGED <<hp, inventory>>

\* C17: at the prompt of a fight every line but `flee` leaves the fight
\* going against the same enemy, at the player's attack of the next round:
\* `use <item>` has the effect of use on the player's health and inventory and
\* no other, and every other line (c, the empty line, quit, any other text)
\* changes nothing.
C17_PromptGoesOn ==
    [][\A line \in Actions :
          (combat_prompt(line) /\ Lower(line) # <<"flee">>) =>
             /\ fights' = [fights EXCEPT ![Len(fights)] = [@ EXCEPT !.pos = "round"]]
             /\ pc' = "round"
             /\ enemies'[Top.room][Top.idx].hp > 0
             /\ hp' > 0
             /\ UNCHANGED <<items, enemies, exits, current_room, made, ended>>
             /\ IF Len(line) >= 2 /\ Lower(line)[1] = "use"
                THEN UseEffect(Rest(Lower(line)))
                ELSE UNCHANGED <<hp, inventory, consumed>>]_vars

\* A state at the player's next attack, right after a potion was used at the
\* prompt of a fight.
C17_Witness ==
    /\ pc = "round"
    /\ Top.round >= 1
    /\ out = "restored"
    /\ consumed # {}

\* The typed lines that reach cmd_go: `go` and at least one more word.
GoLines == {line \in Lines : Len(line) >= 2 /\ Lower(line)[1] = "go"}

\* C18: `go <direction>` with a direction of the current room's exits puts
\* the player in the mapped room and changes nothing else, whether or not an
\* enemy is alive in the room left or in the room entered.
C18_GoMoves ==
    [][\A line \in GoLines :
          (/\ Lower(line)[2] \in DOMAIN exits[current_room]
           /\ start(line)) =>
             /\ current_room' = exits[current_room][Lower(line)[2]]
             /\ UNCHANGED <<items, enemies, exits, hp, inventory, fights, over,
                            made, consumed, ended>>]_vars

\* The player has walked out of the hall past the goblin and into the tower of
\* the wraith, both alive and unhurt.
C18_Witness ==
    /\ current_room = "tower"
    /\ out = "description"
    /\ inputs = 2
    /\ enemies["hall"][1].hp = 14
    /\ enemies["tower"][1].hp = 25

\* The rounds of the fight of frame f are at most the health its enemy has
\* lost since the fight began.
RoundsPaid(f) == f.round + enemies[f.room][f.idx].hp <= f.hp0

\* A step of a fight, or of the game outside of one, as C19 has it.
FightStep ==
    /\ fights # <<>> =>
         LET f == Top
             e == EnemyOf(f)
             e_next == enemies'[f.room][f.idx]
         IN /\ e.hp > 0
            /\ \/ /\ f.pos = "round"
                  /\ e_next.hp < e.hp
                  /\ \/ /\ fights' = Front(fights)
                        /\ ended'.state \in {"player_wins", "player_dies"}
                        /\ ended'.state = "player_wins" <=> e_next.hp <= 0
                        /\ ended'.state = "player_dies" <=> hp' <= 0
                        /\ ended'.rounds = f.round + 1
                     \/ /\ fights' = [fights EXCEPT ![Len(fights)] =
                               [f EXCEPT !.pos = "prompt", !.round = f.round + 1]]
                        /\ e_next.hp > 0
                        /\ hp' > 0
               \/ /\ f.pos = "prompt"
                  /\ e_next.hp = e.hp
                  /\ \/ /\ fights' = Front(fights)
                        /\ ended'.state = "player_flees"
                        /\ ended'.rounds = f.round
                     \/ fights' = [fights EXCEPT ![Len(fights)] =
                               [f EXCEPT !.pos = "round"]]
    /\ fights' # <<>> => RoundsPaid(Top)'
    /\ ended'.state \in {"none", "player_wins", "player_dies", "player_flees"}
    /\ ended'.rounds <= ended'.hp0

\* C19: every fight ends after finitely many rounds.  The health of the
\* enemy is the variant: a round takes at least one point of it and either
\* ends the fight, as player_wins or player_dies, or goes to the prompt with
\* both combatants alive; a step of the prompt leaves it as it is, whatever
\* is typed and whatever is used, and either ends the fight as player_flees
\* or goes to the next round.  The rounds of a fight are so at most the
\* health its enemy had when it began.
C19_FightEnds ==
    /\ [][FightStep]_vars
    /\ <>(fights = <<>> /\ ended.state \in {"player_wins", "player_dies", "player_flees"})

\* A fight of two rounds or more, prolonged by a potion drunk at its prompt,
\* has ended with the enemy's defeat.
C19_Witness ==
    /\ fights = <<>>
    /\ ended.state = "player_wins"
    /\ ended.rounds >= 2
    /\ consumed # {}
    /\ hp > start_hp

\* What a fight prints: the messages of its rounds, of its prompt and of use.
FightSays ==
    {"enemy_hits", "defeated", "dropped", "slain", "description", "unknown_option",
     "restored", "nothing_happened", "dont_have_item"}

\* A step taken while a fight is going on, as C20 has it.
InFightStep ==
    fights # <<>> =>
       LET f == Top
       IN /\ out' \in FightSays
          /\ exits' = exits
          /\ Len(inventory') <= Len(inventory)
          /\ \A r \in Rooms : Len(enemies'[r]) = Len(enemies[r])
          /\ \A r \in Rooms \ {f.room} : enemies'[r] = enemies[r] /\ items'[r] = items[r]
          /\ \A i \in 1..Len(enemies[f.room]) :
                i # f.idx => enemies'[f.room][i] = enemies[f.room][i]
          /\ IF fights' # <<>>
             THEN /\ Len(fights') = 1
                  /\ Top'.room = f.room
                  /\ Top'.idx = f.idx
                  /\ Top'.hp0 = f.hp0
                  /\ current_room' = current_room
                  /\ items' = items
             ELSE /\ ended'.hp0 = f.hp0
                  /\ IF ended'.state = "player_flees"
                     THEN current_room' = "foyer" /\ items' = items
                     ELSE current_room' = current_room
                  /\ items' # items =>
                        /\ ended'.state = "player_wins"
                        /\ enemies'[f.room][f.idx].hp <= 0
                        /\ Len(items'[f.room]) = Len(items[f.room]) + 1
                        /\ SubSeq(items'[f.room], 1, Len(items[f.room])) = items[f.room]

\* C20: inside a fight no go, no take and no other fight is run: there is at
\* most one fight at a time, the player is in the room of the enemy fought,
\* and until the fight ends the room, the enemy fought and the items of the
\* rooms stay as they are; the fight ends in the same room, or in the foyer
\* by flee, and loot is added to the room of the defeated enemy alone.
C20_OnlyUseInFight ==
    [][/\ InFightStep
       /\ Len(fights') <= 1
       /\ fights' # <<>> =>
             /\ current_room' = Top'.room
             /\ Top'.idx \in 1..Len(enemies'[Top'.room])]_vars

\* A line that is a command of the game was typed at the prompt of a fight,
\* in a room with an exit of that name, and was refused.
C20_Witness ==
    /\ pc = "round"
    /\ Top.round >= 1
    /\ out = "unknown_option"
    /\ current_room = "hall"
    /\ inventory # <<>>

====
